---- MODULE Spec2Model ----
(***************************************************************************)
(* A model of SmartNixieTube.py: the SmartNixieTubeDisplay class, its      *)
(* nested SmartNixieTube class, the command string they generate and the   *)
(* serial port calls of send_command and __del__.                          *)
(*                                                                         *)
(* Python str values are sequences of one-character strings; bytes are     *)
(* sequences of character codes.  A Python int that the program formats    *)
(* with str() (the argument of set_display_number) is kept as a sign and   *)
(* its decimal digits, most significant first, so that it is not limited   *)
(* to the model checker's machine integers.                                *)
(***************************************************************************)
EXTENDS Integers, Sequences, FiniteSets, TLC

VARIABLES
    number_of_tubes_in_display, \* SmartNixieTubeDisplay.__number_of_tubes_in_display
    tubes,                      \* SmartNixieTubeDisplay.tubes
    brightness,                 \* SmartNixieTubeDisplay.__brightness
    red,                        \* SmartNixieTubeDisplay.__red
    green,                      \* SmartNixieTubeDisplay.__green
    blue,                       \* SmartNixieTubeDisplay.__blue
    port_open,                  \* self.port.isOpen()
    port_calls,                 \* calls made on self.port (and time.sleep) by the last operation
    last_op,                    \* the last operation called, with its arguments
    raised,                     \* the exception the last operation raised, or "none"
    ret,                        \* the value the last operation returned
    ops,                        \* number of operations called so far
    sleeping                    \* the calls now inside time.sleep(0.1), in call order

vars == <<number_of_tubes_in_display, tubes, brightness, red, green, blue,
          port_open, port_calls, last_op, raised, ret, ops, sleeping>>

display_state == <<number_of_tubes_in_display, tubes, brightness, red, green, blue>>

(***************************************************************************)
(* Bounds of the model.                                                    *)
(***************************************************************************)
MaxTubes == 2
MaxOps == 2
NumTubesWide == 15

\* time.sleep(0.1), in milliseconds
SettleMs == 100

None == <<>>

\* in place of a returned value while a call has not returned
Pending == <<"pending">>

(***************************************************************************)
(* Inputs.                                                                 *)
(***************************************************************************)
\* values handed to the 0-255 setters
ByteInputs == {-1, 0, 255, 256}

\* values handed to the digit setter
DigitInputs == {<<"5">>, <<"-">>, <<"a">>, <<"1", "2">>, <<>>}

\* values handed to the decimal point setters: a Python type and a value
PointInputs == {<<"bool", TRUE>>, <<"bool", FALSE>>, <<"int", 1>>}

\* constructor keyword arguments brightness, red, green, blue
InitDefaults == {<<0, 0, 0, 0>>, <<128, 0, 0, 255>>}

\* values handed to the number_of_tubes_in_display setter
CountInputs == 0..(MaxTubes + 1)

\* what the serial port does during one send_command: the call that raises
Faults == {"none", "flushOutput", "flushInput", "flush", "write"}

(***************************************************************************)
(* Python int, str and float helpers.                                      *)
(***************************************************************************)
DigitChars == <<"0", "1", "2", "3", "4", "5", "6", "7", "8", "9">>

Chr(d) == DigitChars[d + 1]

RECURSIVE NatDigits(_)
NatDigits(n) == IF n < 10 THEN <<n>> ELSE Append(NatDigits(n \div 10), n % 10)

\* a Python int as sign and decimal digits
PyInt(n) == [neg |-> n < 0, digits |-> NatDigits(IF n < 0 THEN -n ELSE n)]

\* a Python int given by its decimal digits
PyIntOfDigits(ds) == [neg |-> FALSE, digits |-> ds]

IsZero(number) == number.digits = <<0>>

\* str(number)
str(number) ==
    (IF number.neg THEN <<"-">> ELSE <<>>)
        \o [i \in 1..Len(number.digits) |-> Chr(number.digits[i])]

Zeros(n) == [i \in 1..n |-> "0"]

\* s.zfill(width)
zfill(s, width) ==
    IF Len(s) >= width THEN s
    ELSE IF Len(s) > 0 /\ s[1] \in {"+", "-"}
         THEN <<s[1]>> \o Zeros(width - Len(s)) \o Tail(s)
         ELSE Zeros(width - Len(s)) \o s

\* value in text, for str operands: text contains value as a substring
IsSubstring(value, text) ==
    \E i \in 0..(Len(text) - Len(value)) : SubSeq(text, i + 1, i + Len(value)) = value

RECURSIVE AllNines(_)
AllNines(ds) == ds = <<>> \/ (Head(ds) = 9 /\ AllNines(Tail(ds)))

\* 10^d - number for a positive number of d digits, when that is below 100;
\* 100 otherwise
BelowPowerOfTen(ds) ==
    LET d == Len(ds) IN
    IF d = 1 THEN 10 - ds[1]
    ELSE IF AllNines(SubSeq(ds, 1, d - 2))
         THEN 100 - (10 * ds[d - 1] + ds[d])
         ELSE 100

\* math.log10 returns an IEEE-754 double: for a d-digit number so close below
\* 10^d that the nearest double to its logarithm is d itself, log10 returns
\* d exactly.  RoundUpSlack(d) is the largest distance 10^d - number for which
\* that happens (0: never); numbers of up to 16 digits are covered.
RoundUpSlack(d) == IF d < 15 THEN 0 ELSE IF d = 15 THEN 2 ELSE 21

\* int(log10(number)) for number > 0
IntLog10(number) ==
    LET d == Len(number.digits) IN
    IF BelowPowerOfTen(number.digits) <= RoundUpSlack(d) THEN d ELSE d - 1

\* '%03d' % number
convert_digit_to_string_with_leading_zeros(number) ==
    LET mag == NatDigits(IF number < 0 THEN -number ELSE number)
        s == [i \in 1..Len(mag) |-> Chr(mag[i])]
    IN IF number < 0 THEN zfill(<<"-">> \o s, 3) ELSE zfill(s, 3)

convert_from_bool_to_yn(boolean) == IF boolean THEN <<"Y">> ELSE <<"N">>

\* str.encode(): the code of each character
Ord(c) ==
    CASE c = "!" -> 33 [] c = "$" -> 36 [] c = "," -> 44 [] c = "-" -> 45
      [] c = "0" -> 48 [] c = "1" -> 49 [] c = "2" -> 50 [] c = "3" -> 51
      [] c = "4" -> 52 [] c = "5" -> 53 [] c = "6" -> 54 [] c = "7" -> 55
      [] c = "8" -> 56 [] c = "9" -> 57 [] c = "N" -> 78 [] c = "Y" -> 89

encode(s) == [i \in 1..Len(s) |-> Ord(s[i])]

(***************************************************************************)
(* class SmartNixieTube                                                    *)
(***************************************************************************)
ValidDigits == <<"-", "0", "1", "2", "3", "4", "5", "6", "7", "8", "9">>

\* the digit setter
Tube_digit(t, value) ==
    IF ~IsSubstring(value, ValidDigits)
    THEN [t EXCEPT !.digit = <<"-">>]
    ELSE [t EXCEPT !.digit = value]

\* SmartNixieTube() with its default arguments
Tube_init ==
    [digit |-> <<"-">>, left_decimal_point |-> FALSE, right_decimal_point |-> FALSE,
     brightness |-> 0, red |-> 0, green |-> 0, blue |-> 0]

\* turn_off that forgets the decimal points
Tube_turn_off_keeps_points(t) ==
    [Tube_digit(t, <<"-">>) EXCEPT !.brightness = 0, !.red = 0, !.green = 0, !.blue = 0]

Tube_turn_off(t) ==
    [Tube_digit(t, <<"-">>) EXCEPT !.left_decimal_point = FALSE,
                                   !.right_decimal_point = FALSE,
                                   !.brightness = 0, !.red = 0, !.green = 0, !.blue = 0]

Tube_generate_command_string(t) ==
    <<"$">> \o
    t.digit \o <<",">> \o
    convert_from_bool_to_yn(t.left_decimal_point) \o <<",">> \o
    convert_from_bool_to_yn(t.right_decimal_point) \o <<",">> \o
    convert_digit_to_string_with_leading_zeros(t.brightness) \o <<",">> \o
    convert_digit_to_string_with_leading_zeros(t.red) \o <<",">> \o
    convert_digit_to_string_with_leading_zeros(t.green) \o <<",">> \o
    convert_digit_to_string_with_leading_zeros(t.blue)

(***************************************************************************)
(* class SmartNixieTubeDisplay: pure parts                                 *)
(***************************************************************************)
\* the loop appending each tube's string instead of prepending it
RECURSIVE PrependFrom_appending(_, _, _)
PrependFrom_appending(ts, i, command_string) ==
    IF i > Len(ts) THEN command_string
    ELSE PrependFrom_appending(ts, i + 1,
                               command_string \o Tube_generate_command_string(ts[i]))

\* the loop of generate_command_string from tube i on
RECURSIVE PrependFrom(_, _, _)
PrependFrom(ts, i, command_string) ==
    IF i > Len(ts) THEN command_string
    ELSE PrependFrom(ts, i + 1, Tube_generate_command_string(ts[i]) \o command_string)

generate_command_string(ts) == PrependFrom(ts, 1, <<>>) \o <<"!">>

\* reset that turns every tube off, decimal points included
ResetTubes_turn_off(ts) == [i \in DOMAIN ts |-> Tube_turn_off(ts[i])]

\* the body of reset
ResetTubes(ts) ==
    [i \in DOMAIN ts |->
        [Tube_digit(ts[i], <<"-">>) EXCEPT !.brightness = 0, !.red = 0,
                                           !.green = 0, !.blue = 0]]

\* the loop of set_display_number
AssignDigits(ts, display_number) ==
    [i \in DOMAIN ts |->
        IF i <= Len(display_number) THEN Tube_digit(ts[i], <<display_number[i]>>)
        ELSE ts[i]]

\* the exception of that loop: display_number[i] past the end of the string
AssignRaises(ts, display_number) ==
    IF Len(display_number) < Len(ts) THEN "IndexError" ELSE "none"

\* send_command without the isOpen() test
SendCalls_unguarded(is_open, fault, command_string) ==
    << [call |-> "flushOutput", data |-> <<>>],
       [call |-> "flushInput", data |-> <<>>],
       [call |-> "flush", data |-> <<>>],
       [call |-> "write", data |-> encode(command_string)],
       [call |-> "sleep", data |-> <<SettleMs>>] >>

\* send_command writing before it flushes
SendCalls_write_first(is_open, fault, command_string) ==
    IF ~is_open THEN <<>>
    ELSE << [call |-> "write", data |-> encode(command_string)],
            [call |-> "flushOutput", data |-> <<>>],
            [call |-> "flushInput", data |-> <<>>],
            [call |-> "flush", data |-> <<>>],
            [call |-> "sleep", data |-> <<SettleMs>>] >>

\* send_command trying the write a second time when it raises
SendCalls_retry(is_open, fault, command_string) ==
    IF ~is_open THEN <<>>
    ELSE << [call |-> "flushOutput", data |-> <<>>],
            [call |-> "flushInput", data |-> <<>>],
            [call |-> "flush", data |-> <<>>],
            [call |-> "write", data |-> encode(command_string)],
            [call |-> "write", data |-> encode(command_string)] >>

\* the calls send_command makes when the port's call named fault raises
SendCalls(is_open, fault, command_string) ==
    LET flushOutput == [call |-> "flushOutput", data |-> <<>>]
        flushInput == [call |-> "flushInput", data |-> <<>>]
        flush == [call |-> "flush", data |-> <<>>]
        write == [call |-> "write", data |-> encode(command_string)]
        sleep == [call |-> "sleep", data |-> <<SettleMs>>]
    IN IF ~is_open THEN <<>>
       ELSE IF fault = "flushOutput" THEN <<flushOutput>>
       ELSE IF fault = "flushInput" THEN <<flushOutput, flushInput>>
       ELSE IF fault = "flush" THEN <<flushOutput, flushInput, flush>>
       ELSE IF fault = "write" THEN <<flushOutput, flushInput, flush, write>>
       ELSE <<flushOutput, flushInput, flush, write, sleep>>

\* send_command reaches time.sleep(0.1): the port is open and nothing raised
SendSleeps(is_open, fault) == is_open /\ fault = "none"

\* the exception send_command raises
SendRaises(is_open, fault) ==
    IF is_open /\ fault # "none" THEN "ConnectionError" ELSE "none"

(***************************************************************************)
(* Bookkeeping shared by the actions.                                      *)
(***************************************************************************)
Called(name, tube, arg, exc, calls, value) ==
    /\ ops < MaxOps
    /\ ops' = ops + 1
    /\ last_op' = [name |-> name, tube |-> tube, arg |-> arg]
    /\ raised' = exc
    /\ port_calls' = calls
    /\ ret' = value
    /\ UNCHANGED sleeping

\* a call that has entered time.sleep(0.1) and has not returned: callbacks and
\* other threads run until it resumes
CalledAndSleeps(name, arg, calls) ==
    /\ ops < MaxOps
    /\ ops' = ops + 1
    /\ last_op' = [name |-> name, tube |-> 0, arg |-> arg]
    /\ raised' = "none"
    /\ port_calls' = calls
    /\ ret' = Pending
    /\ sleeping' = Append(sleeping, name)

\* the i-th sleeping call resumes, makes its remaining calls and returns
Resumed(i, calls) ==
    /\ last_op' = [name |-> sleeping[i], tube |-> 0, arg |-> "resumed"]
    /\ raised' = "none"
    /\ port_calls' = calls
    /\ ret' = None
    /\ sleeping' = SubSeq(sleeping, 1, i - 1) \o SubSeq(sleeping, i + 1, Len(sleeping))
    /\ UNCHANGED ops

(***************************************************************************)
(* Init: SmartNixieTubeDisplay(number_of_tubes_in_display, port name,      *)
(* brightness=, red=, green=, blue=) returned without raising.             *)
(***************************************************************************)
Constructed(n, defaults) ==
    /\ number_of_tubes_in_display = n
    /\ tubes = [i \in 1..n |->
                  [Tube_init EXCEPT !.brightness = defaults[1], !.red = defaults[2],
                                    !.green = defaults[3], !.blue = defaults[4]]]
    /\ brightness = defaults[1]
    /\ red = defaults[2]
    /\ green = defaults[3]
    /\ blue = defaults[4]
    /\ port_open = TRUE
    /\ port_calls = <<>>
    /\ last_op = [name |-> "__init__", tube |-> 0, arg |-> defaults]
    /\ raised = "none"
    /\ ret = None
    /\ ops = 0
    /\ sleeping = <<>>

Init == \E n \in 1..MaxTubes : \E defaults \in InitDefaults : Constructed(n, defaults)

InitWide == Constructed(NumTubesWide, <<0, 0, 0, 0>>)

(***************************************************************************)
(* SmartNixieTube operations, on tubes[i].                                 *)
(***************************************************************************)
tube_digit(i, value) ==
    /\ tubes' = [tubes EXCEPT ![i] = Tube_digit(tubes[i], value)]
    /\ UNCHANGED <<number_of_tubes_in_display, brightness, red, green, blue, port_open>>
    /\ Called("tube.digit", i, value, "none", <<>>, None)

tube_left_decimal_point(i, value) ==
    /\ IF value[1] # "bool"
       THEN /\ UNCHANGED tubes
            /\ Called("tube.left_decimal_point", i, value, "TypeError", <<>>, None)
       ELSE /\ tubes' = [tubes EXCEPT ![i].left_decimal_point = value[2]]
            /\ Called("tube.left_decimal_point", i, value, "none", <<>>, None)
    /\ UNCHANGED <<number_of_tubes_in_display, brightness, red, green, blue, port_open>>

tube_right_decimal_point(i, value) ==
    /\ IF value[1] # "bool"
       THEN /\ UNCHANGED tubes
            /\ Called("tube.right_decimal_point", i, value, "TypeError", <<>>, None)
       ELSE /\ tubes' = [tubes EXCEPT ![i].right_decimal_point = value[2]]
            /\ Called("tube.right_decimal_point", i, value, "none", <<>>, None)
    /\ UNCHANGED <<number_of_tubes_in_display, brightness, red, green, blue, port_open>>

tube_brightness(i, value) ==
    /\ IF value < 0 \/ value > 255
       THEN /\ UNCHANGED tubes
            /\ Called("tube.brightness", i, value, "ValueError", <<>>, None)
       ELSE /\ tubes' = [tubes EXCEPT ![i].brightness = value]
            /\ Called("tube.brightness", i, value, "none", <<>>, None)
    /\ UNCHANGED <<number_of_tubes_in_display, brightness, red, green, blue, port_open>>

tube_red(i, value) ==
    /\ IF value < 0 \/ value > 255
       THEN /\ UNCHANGED tubes
            /\ Called("tube.red", i, value, "ValueError", <<>>, None)
       ELSE /\ tubes' = [tubes EXCEPT ![i].red = value]
            /\ Called("tube.red", i, value, "none", <<>>, None)
    /\ UNCHANGED <<number_of_tubes_in_display, brightness, red, green, blue, port_open>>

tube_blue(i, value) ==
    /\ IF value < 0 \/ value > 255
       THEN /\ UNCHANGED tubes
            /\ Called("tube.blue", i, value, "ValueError", <<>>, None)
       ELSE /\ tubes' = [tubes EXCEPT ![i].blue = value]
            /\ Called("tube.blue", i, value, "none", <<>>, None)
    /\ UNCHANGED <<number_of_tubes_in_display, brightness, red, green, blue, port_open>>

tube_green(i, value) ==
    /\ IF value < 0 \/ value > 255
       THEN /\ UNCHANGED tubes
            /\ Called("tube.green", i, value, "ValueError", <<>>, None)
       ELSE /\ tubes' = [tubes EXCEPT ![i].green = value]
            /\ Called("tube.green", i, value, "none", <<>>, None)
    /\ UNCHANGED <<number_of_tubes_in_display, brightness, red, green, blue, port_open>>

tube_turn_off(i) ==
    /\ tubes' = [tubes EXCEPT ![i] = Tube_turn_off(tubes[i])]
    /\ UNCHANGED <<number_of_tubes_in_display, brightness, red, green, blue, port_open>>
    /\ Called("tube.turn_off", i, None, "none", <<>>, None)

tube_generate_command_string(i) ==
    /\ UNCHANGED <<display_state, port_open>>
    /\ Called("tube.generate_command_string", i, None, "none", <<>>,
              Tube_generate_command_string(tubes[i]))

(***************************************************************************)
(* SmartNixieTubeDisplay operations.                                       *)
(***************************************************************************)
set_number_of_tubes_in_display(value) ==
    /\ IF value < 1
       THEN /\ UNCHANGED number_of_tubes_in_display
            /\ Called("number_of_tubes_in_display", 0, value, "ValueError", <<>>, None)
       ELSE /\ number_of_tubes_in_display' = value
            /\ Called("number_of_tubes_in_display", 0, value, "none", <<>>, None)
    /\ UNCHANGED <<tubes, brightness, red, green, blue, port_open>>

set_brightness(value) ==
    /\ IF value < 0 \/ value > 255
       THEN /\ UNCHANGED <<brightness, tubes>>
            /\ Called("brightness", 0, value, "ValueError", <<>>, None)
       ELSE /\ brightness' = value
            /\ tubes' = [i \in 1..Len(tubes) |->
                            IF i <= number_of_tubes_in_display
                            THEN [tubes[i] EXCEPT !.brightness = value] ELSE tubes[i]]
            /\ Called("brightness", 0, value,
                      IF number_of_tubes_in_display > Len(tubes)
                      THEN "IndexError" ELSE "none", <<>>, None)
    /\ UNCHANGED <<number_of_tubes_in_display, red, green, blue, port_open>>

set_red(value) ==
    /\ IF value < 0 \/ value > 255
       THEN /\ UNCHANGED <<red, tubes>>
            /\ Called("red", 0, value, "ValueError", <<>>, None)
       ELSE /\ red' = value
            /\ tubes' = [i \in 1..Len(tubes) |->
                            IF i <= number_of_tubes_in_display
                            THEN [tubes[i] EXCEPT !.red = value] ELSE tubes[i]]
            /\ Called("red", 0, value,
                      IF number_of_tubes_in_display > Len(tubes)
                      THEN "IndexError" ELSE "none", <<>>, None)
    /\ UNCHANGED <<number_of_tubes_in_display, brightness, green, blue, port_open>>

set_blue(value) ==
    /\ IF value < 0 \/ value > 255
       THEN /\ UNCHANGED <<blue, tubes>>
            /\ Called("blue", 0, value, "ValueError", <<>>, None)
       ELSE /\ blue' = value
            /\ tubes' = [i \in 1..Len(tubes) |->
                            IF i <= number_of_tubes_in_display
                            THEN [tubes[i] EXCEPT !.blue = value] ELSE tubes[i]]
            /\ Called("blue", 0, value,
                      IF number_of_tubes_in_display > Len(tubes)
                      THEN "IndexError" ELSE "none", <<>>, None)
    /\ UNCHANGED <<number_of_tubes_in_display, brightness, red, green, port_open>>

set_green(value) ==
    /\ IF value < 0 \/ value > 255
       THEN /\ UNCHANGED <<green, tubes>>
            /\ Called("green", 0, value, "ValueError", <<>>, None)
       ELSE /\ green' = value
            /\ tubes' = [i \in 1..Len(tubes) |->
                            IF i <= number_of_tubes_in_display
                            THEN [tubes[i] EXCEPT !.green = value] ELSE tubes[i]]
            /\ Called("green", 0, value,
                      IF number_of_tubes_in_display > Len(tubes)
                      THEN "IndexError" ELSE "none", <<>>, None)
    /\ UNCHANGED <<number_of_tubes_in_display, brightness, red, blue, port_open>>

reset ==
    /\ tubes' = ResetTubes(tubes)
    /\ UNCHANGED <<number_of_tubes_in_display, brightness, red, green, blue, port_open>>
    /\ Called("reset", 0, None, "none", <<>>, None)

call_generate_command_string ==
    /\ UNCHANGED <<display_state, port_open>>
    /\ Called("generate_command_string", 0, None, "none", <<>>,
              generate_command_string(tubes))

set_display_number(number) ==
    /\ IF number.neg
       THEN /\ UNCHANGED tubes
            /\ Called("set_display_number", 0, number, "ValueError", <<>>, None)
       ELSE IF IsZero(number)
       THEN /\ tubes' = AssignDigits(tubes, zfill(str(number), number_of_tubes_in_display))
            /\ Called("set_display_number", 0, number,
                      AssignRaises(tubes, zfill(str(number), number_of_tubes_in_display)),
                      <<>>, None)
       ELSE IF IntLog10(number) + 1 > number_of_tubes_in_display
       THEN /\ UNCHANGED tubes
            /\ Called("set_display_number", 0, number, "ValueError", <<>>, None)
       ELSE /\ tubes' = AssignDigits(tubes, zfill(str(number), number_of_tubes_in_display))
            /\ Called("set_display_number", 0, number,
                      AssignRaises(tubes, zfill(str(number), number_of_tubes_in_display)),
                      <<>>, None)
    /\ UNCHANGED <<number_of_tubes_in_display, brightness, red, green, blue, port_open>>

\* send_command up to its return, or up to time.sleep(0.1) when it gets there
send_command(fault) ==
    /\ UNCHANGED <<display_state, port_open>>
    /\ IF SendSleeps(port_open, fault)
       THEN CalledAndSleeps("send_command", fault,
                            SendCalls(port_open, fault, generate_command_string(tubes)))
       ELSE Called("send_command", 0, fault, SendRaises(port_open, fault),
                   SendCalls(port_open, fault, generate_command_string(tubes)), None)

\* __del__: reset, send_command and port.close() in a try whose except passes;
\* up to its return, or up to the time.sleep(0.1) of its send_command
del(fault) ==
    LET cleared == ResetTubes(tubes)
        sent == SendCalls(port_open, fault, generate_command_string(cleared))
        failed == SendRaises(port_open, fault) # "none"
    IN /\ tubes' = cleared
       /\ UNCHANGED <<number_of_tubes_in_display, brightness, red, green, blue>>
       /\ IF SendSleeps(port_open, fault)
          THEN /\ UNCHANGED port_open
               /\ CalledAndSleeps("__del__", fault, sent)
          ELSE /\ port_open' = IF failed THEN port_open ELSE FALSE
               /\ Called("__del__", 0, fault, "none",
                         IF failed THEN sent
                         ELSE sent \o <<[call |-> "close", data |-> <<>>]>>,
                         None)

\* time.sleep(0.1) of the i-th sleeping call is over: send_command returns;
\* __del__ goes on to self.port.close() and returns
wake(i) ==
    /\ UNCHANGED display_state
    /\ IF sleeping[i] = "__del__"
       THEN /\ port_open' = FALSE
            /\ Resumed(i, <<[call |-> "close", data |-> <<>>]>>)
       ELSE /\ UNCHANGED port_open
            /\ Resumed(i, <<>>)

\* the outcomes of the port's calls that can happen: a port that is not open
\* is not called
FaultsNow == IF port_open THEN Faults ELSE {"none"}

(***************************************************************************)
(* Specifications.                                                         *)
(***************************************************************************)
\* arguments of set_display_number
Numbers == {PyInt(n) : n \in {-1, 0, 5, 42, 99, 100, 999, 1000}}

Next ==
    \/ \E i \in 1..Len(tubes) : \E value \in DigitInputs : tube_digit(i, value)
    \/ \E i \in 1..Len(tubes) : \E value \in PointInputs :
            tube_left_decimal_point(i, value)
    \/ \E i \in 1..Len(tubes) : \E value \in PointInputs :
            tube_right_decimal_point(i, value)
    \/ \E i \in 1..Len(tubes) : \E value \in ByteInputs : tube_brightness(i, value)
    \/ \E i \in 1..Len(tubes) : \E value \in ByteInputs : tube_red(i, value)
    \/ \E i \in 1..Len(tubes) : \E value \in ByteInputs : tube_blue(i, value)
    \/ \E i \in 1..Len(tubes) : \E value \in ByteInputs : tube_green(i, value)
    \/ \E i \in 1..Len(tubes) : tube_turn_off(i)
    \/ \E i \in 1..Len(tubes) : tube_generate_command_string(i)
    \/ \E value \in CountInputs : set_number_of_tubes_in_display(value)
    \/ \E value \in ByteInputs : set_brightness(value)
    \/ \E value \in ByteInputs : set_red(value)
    \/ \E value \in ByteInputs : set_blue(value)
    \/ \E value \in ByteInputs : set_green(value)
    \/ reset
    \/ call_generate_command_string
    \/ \E number \in Numbers : set_display_number(number)
    \/ \E fault \in FaultsNow : send_command(fault)
    \/ \E fault \in FaultsNow : del(fault)
    \/ \E i \in 1..Len(sleeping) : wake(i)

Spec == Init /\ [][Next]_vars

\* a display of NumTubesWide tubes shown numbers of about that many digits
NumbersWide ==
    {PyIntOfDigits([i \in 1..NumTubesWide |->
                        IF i < NumTubesWide - 1 THEN 9
                        ELSE IF i = NumTubesWide - 1 THEN a ELSE b]) : a, b \in 0..9}
    \cup {PyIntOfDigits([i \in 1..(NumTubesWide + 1) |-> IF i = 1 THEN 1 ELSE 0])}
    \cup {PyInt(-1), PyInt(0), PyInt(42)}

NextWide ==
    \/ \E number \in NumbersWide : set_display_number(number)
    \/ reset

SpecWide == InitWide /\ [][NextWide]_vars

(***************************************************************************)
(* Reference definitions used by the properties.                           *)
(***************************************************************************)
\* a 0-255 value as three decimal digits
ThreeDigits(v) == <<Chr(v \div 100), Chr((v \div 10) % 10), Chr(v % 10)>>

YN(b) == IF b THEN "Y" ELSE "N"

\* DIGIT,LDP,RDP,BRIGHTNESS,RED,GREEN,BLUE without a leading "$"
Fragment(t) ==
    t.digit \o <<",", YN(t.left_decimal_point), ",", YN(t.right_decimal_point), ",">>
        \o ThreeDigits(t.brightness) \o <<",">> \o ThreeDigits(t.red) \o <<",">>
        \o ThreeDigits(t.green) \o <<",">> \o ThreeDigits(t.blue)

\* "$" fragment(U[n]) "$" fragment(U[n-1]) ... "$" fragment(U[1]) "!"
RECURSIVE FrameFromLast(_, _)
FrameFromLast(ts, n) ==
    IF n = 0 THEN <<"!">> ELSE <<"$">> \o Fragment(ts[n]) \o FrameFromLast(ts, n - 1)

BlankFragment ==
    <<"-", ",", "N", ",", "N", ",", "0", "0", "0", ",", "0", "0", "0", ",",
      "0", "0", "0", ",", "0", "0", "0">>

\* the i-th character of number's decimal string left-padded with "0" to k
PaddedChar(number, k, i) ==
    LET pad == k - Len(number.digits) IN
    IF i <= pad THEN "0" ELSE Chr(number.digits[i - pad])

SingleDigits == {<<ValidDigits[j]>> : j \in 1..Len(ValidDigits)}

BulkSetters == {"brightness", "red", "green", "blue"}

Mutators == BulkSetters \cup {"reset", "set_display_number"}

Writes(calls) == {j \in 1..Len(calls) : calls[j].call = "write"}

Field(t, name) ==
    CASE name = "brightness" -> t.brightness [] name = "red" -> t.red
      [] name = "green" -> t.green [] name = "blue" -> t.blue

DisplayField(name, b, r, g, bl) ==
    CASE name = "brightness" -> b [] name = "red" -> r
      [] name = "green" -> g [] name = "blue" -> bl

WithField(t, name, v) ==
    CASE name = "brightness" -> [t EXCEPT !.brightness = v]
      [] name = "red" -> [t EXCEPT !.red = v]
      [] name = "green" -> [t EXCEPT !.green = v]
      [] name = "blue" -> [t EXCEPT !.blue = v]

(***************************************************************************)
(* Properties.                                                             *)
(***************************************************************************)

\* C1: in every reachable state the display's command string is "$" +
\* fragment(last tube) + ... + "$" + fragment(first tube) + "!": one
\* "$"-prefixed fragment per tube, tubes in reverse order, nothing between the
\* fragments, and "!" as the last character; a call of
\* generate_command_string returns that string.
C1_FrameReversed ==
    /\ generate_command_string(tubes) = FrameFromLast(tubes, Len(tubes))
    /\ Len(tubes) >= 1
    /\ last_op.name = "generate_command_string"
        => ret = FrameFromLast(tubes, Len(tubes))

\* two tubes, the first showing 5, the second blank, both at the constructor's
\* brightness 128 and blue 255: the second tube's fragment comes first
C1_Witness ==
    /\ last_op.name = "generate_command_string"
    /\ Len(tubes) = 2
    /\ ret = <<"$", "-", ",", "N", ",", "N", ",", "1", "2", "8", ",", "0", "0", "0", ",",
               "0", "0", "0", ",", "2", "5", "5",
               "$", "5", ",", "N", ",", "N", ",", "1", "2", "8", ",", "0", "0", "0", ",",
               "0", "0", "0", ",", "2", "5", "5", "!">>

\* C2: set_display_number(n) on k tubes raises for n < 0, raises when n has
\* more than k decimal digits, and otherwise succeeds with tube i showing the
\* i-th character of n's decimal string left-padded with "0" to k characters;
\* a call that raises changes no tube.  The display has k tubes.
C2_ReferenceBehaviour ==
    [][last_op'.name = "set_display_number" =>
        LET n == last_op'.arg
            k == number_of_tubes_in_display
        IN IF n.neg \/ Len(n.digits) > k
           THEN raised' = "ValueError" /\ tubes' = tubes
           ELSE /\ raised' = "none"
                /\ Len(tubes') = k
                /\ \A i \in 1..k : tubes'[i].digit = <<PaddedChar(n, k, i)>>]_vars

\* C3: every tube's brightness, red, green and blue are in 0..255 and its
\* digit is exactly one of the characters 0123456789-, whatever was handed to
\* the setters; the digit setter never raises.
C3_FieldsInRange ==
    /\ \A i \in 1..Len(tubes) :
        /\ tubes[i].brightness \in 0..255
        /\ tubes[i].red \in 0..255
        /\ tubes[i].green \in 0..255
        /\ tubes[i].blue \in 0..255
        /\ tubes[i].digit \in SingleDigits
    /\ last_op.name = "tube.digit" => raised = "none"

\* C4 as claimed: once the port is not open, every bulk setter, reset,
\* set_display_number and send_command fails with TransportUnavailable, and
\* send_command writes nothing.
C4_ClosedCallsFail ==
    [][(~port_open /\ last_op'.name \in Mutators \cup {"send_command"}) =>
        /\ raised' = "TransportUnavailable"
        /\ Writes(port_calls') = {}]_vars

\* C4 as amended: once the port is not open, send_command makes no call on
\* the port (so no write), raises nothing and changes nothing; the bulk
\* setters, reset and set_display_number do not consult the port: they make no
\* call on it and raise no transport error, only ValueError for their own
\* argument or IndexError when number_of_tubes_in_display was reassigned away
\* from the number of tubes; reset blanks every tube, and a bulk setter given a
\* value in 0..255 stores it and writes it to the first
\* number_of_tubes_in_display tubes.
C4_ClosedSendIsSilent ==
    [][~port_open =>
        /\ last_op'.name = "send_command" =>
            /\ raised' = "none"
            /\ port_calls' = <<>>
            /\ display_state' = display_state
        /\ last_op'.name \in Mutators =>
            /\ port_calls' = <<>>
            /\ raised' \in {"none", "ValueError", "IndexError"}
            /\ Len(tubes') = Len(tubes)
            /\ last_op'.name = "reset" =>
                /\ raised' = "none"
                /\ \A i \in 1..Len(tubes) : tubes'[i].digit = <<"-">>
            /\ (last_op'.name \in BulkSetters /\ last_op'.arg \in 0..255) =>
                /\ raised' # "ValueError"
                /\ DisplayField(last_op'.name, brightness', red', green', blue')
                      = last_op'.arg
                /\ \A i \in 1..Len(tubes) :
                      i <= number_of_tubes_in_display
                        => Field(tubes'[i], last_op'.name) = last_op'.arg
        /\ ~port_open']_vars

\* send_command called on a display whose port __del__ has closed
C4_Witness ==
    /\ ~port_open
    /\ last_op.name = "send_command"
    /\ last_op.arg = "none"
    /\ raised = "none"
    /\ port_calls = <<>>

\* C5: __del__ raises nothing; it clears the tubes and writes the cleared
\* frame before it releases the port; and when it has finished, also after a
\* flush or the write raised, its last call on the port was close() and the
\* port is not open.
C5_TeardownReleases ==
    last_op.name = "__del__" =>
        /\ raised = "none"
        /\ last_op.arg # "resumed" =>
            /\ tubes = ResetTubes(tubes)
            /\ \A j \in Writes(port_calls) :
                  port_calls[j].data = encode(generate_command_string(tubes))
        /\ IF ret = Pending
           THEN /\ Writes(port_calls) # {}
                /\ \E i \in 1..Len(sleeping) : sleeping[i] = "__del__"
           ELSE /\ port_calls # <<>>
                /\ port_calls[Len(port_calls)].call = "close"
                /\ ~port_open

\* C6: a send_command on an open port whose calls raise nothing has made
\* exactly these calls in this order: the three flush calls, one write of the
\* encoded command string of the display's state, and the settle sleep, in
\* which it still is: it returns only when that sleep is over.  In any
\* operation a write is preceded by the flush calls.
C6_SendOrder ==
    /\ (last_op.name = "send_command" /\ last_op.arg = "none" /\ port_open) =>
        /\ raised = "none"
        /\ ret = Pending
        /\ \E i \in 1..Len(sleeping) : sleeping[i] = "send_command"
        /\ port_calls = << [call |-> "flushOutput", data |-> <<>>],
                           [call |-> "flushInput", data |-> <<>>],
                           [call |-> "flush", data |-> <<>>],
                           [call |-> "write",
                            data |-> encode(FrameFromLast(tubes, Len(tubes)))],
                           [call |-> "sleep", data |-> <<SettleMs>>] >>
    /\ (last_op.name = "send_command" /\ last_op.arg = "resumed") =>
        /\ ret = None
        /\ raised = "none"
        /\ port_calls = <<>>
    /\ \A j \in Writes(port_calls) :
        /\ j = 4
        /\ port_calls[1].call = "flushOutput"
        /\ port_calls[2].call = "flushInput"
        /\ port_calls[3].call = "flush"

\* a one-tube display with the constructor's defaults 0 sends "$-,N,N,000,000,000,000!"
C6_Witness ==
    /\ last_op.name = "send_command"
    /\ raised = "none"
    /\ ret = Pending
    /\ Len(port_calls) = 5
    /\ port_calls[4].data = <<36, 45, 44, 78, 44, 78, 44, 48, 48, 48, 44, 48, 48, 48, 44,
                              48, 48, 48, 44, 48, 48, 48, 33>>
    /\ port_calls[5].call = "sleep"

\* C7: a bulk setter called with v in 0..255 stores v at the display level,
\* makes that field v on every tube and changes no other field; called with v
\* outside 0..255 it raises ValueError and changes nothing.
C7_BulkSetters ==
    [][last_op'.name \in BulkSetters =>
        LET f == last_op'.name
            v == last_op'.arg
        IN IF v \in 0..255
           THEN /\ raised' = "none"
                /\ DisplayField(f, brightness', red', green', blue') = v
                /\ Len(tubes') = Len(tubes)
                /\ \A i \in 1..Len(tubes) : tubes'[i] = WithField(tubes[i], f, v)
                /\ \A g \in BulkSetters \ {f} :
                      DisplayField(g, brightness', red', green', blue')
                        = DisplayField(g, brightness, red, green, blue)
           ELSE /\ raised' = "ValueError"
                /\ display_state' = display_state]_vars

\* C8: a send_command whose flush or write raises reports ConnectionError,
\* makes no call after the one that raised (so at most one write), and leaves
\* every tube and every display-level value as it was, so the command string
\* is the same as before.
C8_FailedSend ==
    [][(last_op'.name = "send_command" /\ port_open
            /\ last_op'.arg \in Faults \ {"none"}) =>
        /\ raised' = "ConnectionError"
        /\ ret' = None
        /\ sleeping' = sleeping
        /\ port_calls' # <<>>
        /\ port_calls'[Len(port_calls')].call = last_op'.arg
        /\ Cardinality(Writes(port_calls')) <= 1
        /\ display_state' = display_state
        /\ generate_command_string(tubes') = generate_command_string(tubes)]_vars

\* the write raised after a tube was set to show 5
C8_Witness ==
    /\ last_op.name = "send_command"
    /\ last_op.arg = "write"
    /\ raised = "ConnectionError"
    /\ \E i \in 1..Len(tubes) : tubes[i].digit = <<"5">>

\* C9: reset sets every tube's digit to "-" and its brightness, red, green
\* and blue to 0, keeps both decimal points of every tube, raises nothing and
\* leaves the display-level values alone; turn_off on a tube also sets both
\* its decimal points to false.
C9_ResetKeepsPoints ==
    [][/\ last_op'.name = "reset" =>
            /\ raised' = "none"
            /\ Len(tubes') = Len(tubes)
            /\ \A i \in 1..Len(tubes) :
                tubes'[i] = [digit |-> <<"-">>,
                             left_decimal_point |-> tubes[i].left_decimal_point,
                             right_decimal_point |-> tubes[i].right_decimal_point,
                             brightness |-> 0, red |-> 0, green |-> 0, blue |-> 0]
            /\ <<brightness', red', green', blue'>> = <<brightness, red, green, blue>>
       /\ last_op'.name = "tube.turn_off" =>
            /\ raised' = "none"
            /\ tubes'[last_op'.tube] = Tube_init
            /\ \A i \in 1..Len(tubes) : i # last_op'.tube => tubes'[i] = tubes[i]]_vars

\* reset of a display built with brightness 128 on which a left decimal point
\* was switched on
C9_Witness ==
    /\ last_op.name = "reset"
    /\ brightness = 128
    /\ \E i \in 1..Len(tubes) :
        /\ tubes[i].left_decimal_point
        /\ tubes[i].brightness = 0
        /\ tubes[i].blue = 0

\* C10 as claimed: after turn_off a tube's command string is
\* "-,N,N,000,000,000,000" with no leading "$".
C10_BlankWithoutDollar ==
    last_op.name = "tube.turn_off" =>
        Tube_generate_command_string(tubes[last_op.tube]) = BlankFragment

\* C10 as amended: after turn_off a tube's command string is
\* "$-,N,N,000,000,000,000": the tube itself puts the "$" before the seven
\* comma-separated fields, and nothing follows them; generating the string
\* returns it and changes no field.
C10_BlankWithDollar ==
    [][/\ last_op'.name = "tube.turn_off" =>
            Tube_generate_command_string(tubes'[last_op'.tube]) = <<"$">> \o BlankFragment
       /\ last_op'.name = "tube.generate_command_string" =>
            /\ display_state' = display_state
            /\ ret' = <<"$">> \o Fragment(tubes[last_op'.tube])
            /\ (last_op.name = "tube.turn_off" /\ last_op.tube = last_op'.tube)
                  => ret' = <<"$">> \o BlankFragment]_vars

\* one tube of a two-tube display built with brightness 128 and blue 255
\* turned off and its command string generated, the other tube still lit
C10_Witness ==
    /\ last_op.name = "tube.generate_command_string"
    /\ brightness = 128
    /\ Len(tubes) = 2
    /\ ret = <<"$">> \o BlankFragment
    /\ \A i \in 1..Len(tubes) : i # last_op.tube => tubes[i].brightness = 128

====
